---- MODULE Spec2Model ----
(***************************************************************************)
(* A model of trie::Trie (src/include/trie/trie.hpp): a prefix tree with   *)
(* insert, contains, suggest and search_ranked, an optional per-instance   *)
(* mutex, and the Levenshtein distance used for ranking.                   *)
(*                                                                         *)
(* A std::string is a sequence of code units (small integers, compared as  *)
(* unsigned bytes); a node is named by the path of code units leading to   *)
(* it from the root; a node's unordered_map of children is the sequence of *)
(* its keys in the order the container iterates them.                      *)
(***************************************************************************)
EXTENDS Integers, Sequences, FiniteSets, TLC

VARIABLES
  root,         \* root_: the tree, a function from node paths to TrieNode values
  result,       \* the value the last call of the sequential caller returned
  inserts,      \* history: how many times insert was called with each word
  ninserts,     \* history: how many insert calls the run has made
  thread_safe,  \* thread_safe_
  mtx,          \* mtx_: the thread holding it, or Free
  pc,           \* per thread: where it is in its call
  call,         \* per thread: the operation and its arguments
  pos,          \* per thread: how many code units of the argument are walked
  locked,       \* per thread: LockGuard::locked_
  ret,          \* per thread: the value its call is about to return
  snap,         \* history: the tree when the running call passed its LockGuard
  lev_a,        \* levenshtein_distance: first argument
  lev_b,        \* levenshtein_distance: second argument
  lev_d         \* levenshtein_distance: the results, once computed

seqVars == <<root, result, inserts, ninserts>>
mtVars == <<thread_safe, mtx, pc, call, pos, locked, ret, snap>>
levVars == <<lev_a, lev_b, lev_d>>
vars == <<root, result, inserts, ninserts, thread_safe, mtx, pc, call, pos,
          locked, ret, snap, lev_a, lev_b, lev_d>>

----------------------------------------------------------------------------
(* Bounds of the model. *)

MaxLen == 2
MaxInserts == 3
MaxLimit == 2
RankMaxLen == 4
RankMaxInserts == 2
LevMaxLen == 3
MTMaxInserts == 2
MTMaxLen == 1

(* The code units words are made of: 'a' and 'b'. *)
Alphabet == {97, 98}

(* The strings of at most n units of A. *)
RECURSIVE StringsOver(_, _)
StringsOver(A, n) ==
  IF n = 0 THEN {<<>>}
  ELSE LET S == StringsOver(A, n - 1)
       IN S \cup {Append(s, c) : s \in {x \in S : Len(x) = n - 1}, c \in A}

Strings(n) == StringsOver(Alphabet, n)

Words == Strings(MaxLen)
RankWords == Strings(RankMaxLen)
LevWords == Strings(LevMaxLen)
(* The threads call with words of 'a' only, and ask for every match. *)
MTWords == StringsOver({97}, MTMaxLen)
MTLimits == {0}
Limits == 0..MaxLimit

Range(s) == {s[k] : k \in 1..Len(s)}

(* All the orders in which a container may iterate the keys S. *)
Orders(S) ==
  {f \in [1..Cardinality(S) -> S] : \A i, j \in 1..Cardinality(S) : f[i] = f[j] => i = j}

IsPrefix(p, w) == Len(p) <= Len(w) /\ SubSeq(w, 1, Len(p)) = p

----------------------------------------------------------------------------
(* std::uint32_t, as two 16-bit halves: the value is hi * 65536 + lo.      *)

U32Base == 65536

U32Zero == [hi |-> 0, lo |-> 0]

U32Max == [hi |-> U32Base - 1, lo |-> U32Base - 1]

(* x + 1 in std::uint32_t: wraps to 0 after 2^32 - 1. *)
U32Inc(x) ==
  IF x.lo + 1 < U32Base THEN [hi |-> x.hi, lo |-> x.lo + 1]
  ELSE IF x.hi + 1 < U32Base THEN [hi |-> x.hi + 1, lo |-> 0]
  ELSE U32Zero

(* x + 1 for a count of calls, which has no width: hi is unbounded. *)
CountInc(x) ==
  IF x.lo + 1 < U32Base THEN [hi |-> x.hi, lo |-> x.lo + 1]
  ELSE [hi |-> x.hi + 1, lo |-> 0]

(* x <= y on such numbers. *)
NumLeq(x, y) == x.hi < y.hi \/ (x.hi = y.hi /\ x.lo <= y.lo)

----------------------------------------------------------------------------
(* TrieNode and the tree. *)

TrieNode == [children |-> <<>>, is_terminal |-> FALSE, frequency |-> U32Zero]

(* Trie::Trie: root_(std::make_unique<TrieNode>()). *)
EmptyTrie == [p \in {<<>>} |-> TrieNode]

(* node->children.find(c) != node->children.end() *)
HasChild(T, node, c) == \E k \in 1..Len(T[node].children) : T[node].children[k] = c

(* node->children[c] for an absent c: a new TrieNode under the key c; the  *)
(* container then iterates its keys in the order ord.                       *)
AddChild(T, node, c, ord) ==
  [p \in DOMAIN T \cup {Append(node, c)} |->
     IF p = Append(node, c) THEN TrieNode
     ELSE IF p = node THEN [T[node] EXCEPT !.children = ord]
     ELSE T[p]]

(* The iteration orders an unordered_map may have after the key c is added *)
(* to it: the standard fixes none, and a rehash may move every element.     *)
OrdersWith(keys, c) == Orders(Range(keys) \cup {c})

(* insert's loop, from the i-th code unit of word on: the trees it may     *)
(* leave (one per iteration order of the containers it adds a key to).     *)
RECURSIVE InsertWalk(_, _, _)
InsertWalk(T, word, i) ==
  IF i > Len(word) THEN {T}
  ELSE LET node == SubSeq(word, 1, i - 1)
           c == word[i]
       IN IF HasChild(T, node, c) THEN InsertWalk(T, word, i + 1)
          ELSE UNION {InsertWalk(AddChild(T, node, c, ord), word, i + 1) :
                        ord \in OrdersWith(T[node].children, c)}

(* node->is_terminal = true; node->frequency += 1; *)
MarkTerminal(T, word) == [T EXCEPT ![word].is_terminal = TRUE]

BumpFrequency(T, word) == [T EXCEPT ![word].frequency = U32Inc(@)]

(* Trie::insert: the trees the call may leave. *)
insert(T, word) ==
  {BumpFrequency(MarkTerminal(T2, word), word) : T2 \in InsertWalk(T, word, 1)}

----------------------------------------------------------------------------
(* Trie::contains, from the i-th code unit of word on. *)
RECURSIVE ContainsWalk(_, _, _)
ContainsWalk(T, word, i) ==
  IF i > Len(word) THEN T[word].is_terminal
  ELSE IF ~HasChild(T, SubSeq(word, 1, i - 1), word[i]) THEN FALSE
  ELSE ContainsWalk(T, word, i + 1)

containsIgnoringTerminal(T, word) ==
  \A i \in 1..Len(word) : SubSeq(word, 1, i) \in DOMAIN T

contains(T, word) == ContainsWalk(T, word, 1)

(* Whether the walk along prefix finds every edge (the loops of contains   *)
(* and suggest never reach their early return).                            *)
RECURSIVE PathExists(_, _, _)
PathExists(T, prefix, i) ==
  IF i > Len(prefix) THEN TRUE
  ELSE IF ~HasChild(T, SubSeq(prefix, 1, i - 1), prefix[i]) THEN FALSE
  ELSE PathExists(T, prefix, i + 1)

ReachedLimit(out, limit) == limit # 0 /\ Len(out) >= limit

(* F(v), with v worked out once before F uses it. *)
Let1(v, F(_)) == CHOOSE r \in {F(x) : x \in {v}} : TRUE

(* Trie::collect_suggestions: out after the call on node. SuggestLoop is   *)
(* its for loop over node->children, from the k-th key on.                 *)
RECURSIVE SuggestVisit(_, _, _, _, _), SuggestLoop(_, _, _, _, _, _)
SuggestVisit(T, node, current, out, limit) ==
  IF ~T[node].is_terminal THEN SuggestLoop(T, node, current, out, limit, 1)
  ELSE Let1(Append(out, current),
            LAMBDA out1 : IF ReachedLimit(out1, limit) THEN out1
                          ELSE SuggestLoop(T, node, current, out1, limit, 1))

SuggestLoop(T, node, current, out, limit, k) ==
  IF k > Len(T[node].children) THEN out
  ELSE Let1(SuggestVisit(T, Append(node, T[node].children[k]),
                         Append(current, T[node].children[k]), out, limit),
            LAMBDA out1 : IF ReachedLimit(out1, limit) THEN out1
                          ELSE SuggestLoop(T, node, current, out1, limit, k + 1))

(* collect_suggestions without the check after each child (lines 223-226). *)
RECURSIVE SuggestVisitNoLoopCheck(_, _, _, _, _), SuggestLoopNoCheck(_, _, _, _, _, _)
SuggestVisitNoLoopCheck(T, node, current, out, limit) ==
  IF ~T[node].is_terminal THEN SuggestLoopNoCheck(T, node, current, out, limit, 1)
  ELSE Let1(Append(out, current),
            LAMBDA out1 : IF ReachedLimit(out1, limit) THEN out1
                          ELSE SuggestLoopNoCheck(T, node, current, out1, limit, 1))

SuggestLoopNoCheck(T, node, current, out, limit, k) ==
  IF k > Len(T[node].children) THEN out
  ELSE Let1(SuggestVisitNoLoopCheck(T, Append(node, T[node].children[k]),
                                    Append(current, T[node].children[k]), out, limit),
            LAMBDA out1 : SuggestLoopNoCheck(T, node, current, out1, limit, k + 1))

(* collect_suggestions testing out.size() >= limit without limit != 0.     *)
RECURSIVE SuggestVisitZeroIsLimit(_, _, _, _, _), SuggestLoopZeroIsLimit(_, _, _, _, _, _)
SuggestVisitZeroIsLimit(T, node, current, out, limit) ==
  IF ~T[node].is_terminal THEN SuggestLoopZeroIsLimit(T, node, current, out, limit, 1)
  ELSE Let1(Append(out, current),
            LAMBDA out1 : IF Len(out1) >= limit THEN out1
                          ELSE SuggestLoopZeroIsLimit(T, node, current, out1, limit, 1))

SuggestLoopZeroIsLimit(T, node, current, out, limit, k) ==
  IF k > Len(T[node].children) THEN out
  ELSE Let1(SuggestVisitZeroIsLimit(T, Append(node, T[node].children[k]),
                                    Append(current, T[node].children[k]), out, limit),
            LAMBDA out1 : IF Len(out1) >= limit THEN out1
                          ELSE SuggestLoopZeroIsLimit(T, node, current, out1, limit, k + 1))

collect_suggestions(T, node, current, out, limit) ==
  SuggestVisit(T, node, current, out, limit)

(* Trie::suggest *)
suggest(T, prefix, limit) ==
  IF ~PathExists(T, prefix, 1) THEN <<>>
  ELSE collect_suggestions(T, prefix, prefix, <<>>, limit)

----------------------------------------------------------------------------
(* Trie::levenshtein_distance. A row is a function on 0..n.                *)

Min3(x, y, z) == IF x <= y /\ x <= z THEN x ELSE IF y <= z THEN y ELSE z

(* The inner loop over j, from j on: cur when it ends. *)
RECURSIVE LevInner(_, _, _, _, _, _)
LevInner(a, b, prev, cur, i, j) ==
  IF j > Len(b) THEN cur
  ELSE Let1([cur EXCEPT ![j] = Min3(prev[j] + 1, cur[j - 1] + 1,
                                    prev[j - 1] + (IF a[i] = b[j] THEN 0 ELSE 1))],
            LAMBDA cur1 : LevInner(a, b, prev, cur1, i, j + 1))

(* One round of the outer loop: cur[0] = i, then the inner loop. *)
LevRound(a, b, prev, cur, i) ==
  Let1([cur EXCEPT ![0] = i], LAMBDA cur0 : LevInner(a, b, prev, cur0, i, 1))

(* The outer loop over i, from i on: prev when it ends. Each round fills   *)
(* cur and swaps the two rows.                                             *)
RECURSIVE LevOuter(_, _, _, _, _)
LevOuter(a, b, prev, cur, i) ==
  IF i > Len(a) THEN prev
  ELSE Let1(LevRound(a, b, prev, cur, i),
            LAMBDA filled : LevOuter(a, b, filled, prev, i + 1))

(* The outer loop without std::swap(prev, cur). *)
RECURSIVE LevOuterNoSwap(_, _, _, _, _)
LevOuterNoSwap(a, b, prev, cur, i) ==
  IF i > Len(a) THEN prev
  ELSE Let1(LevRound(a, b, prev, cur, i),
            LAMBDA filled : LevOuterNoSwap(a, b, prev, filled, i + 1))

LevRowsNoSwap(a, b, prev, cur) == LevOuterNoSwap(a, b, prev, cur, 1)

LevRows(a, b, prev, cur) ==
  Let1(prev, LAMBDA prev0 : Let1(cur, LAMBDA cur0 : LevOuter(a, b, prev0, cur0, 1)))

levenshtein_distance(a, b) ==
  LET m == Len(a)
      n == Len(b)
  IN IF m = 0 THEN n
     ELSE IF n = 0 THEN m
     ELSE LevRows(a, b, [j \in 0..n |-> j], [j \in 0..n |-> 0])[n]

----------------------------------------------------------------------------
(* double, as score_word uses it: a non-negative IEEE-754 binary64 value   *)
(* x is the integer x * 2^75 written in eight digits of radix 2^15, the    *)
(* least significant first (digit 6 holds the units). Every operation      *)
(* computes the exact result and rounds it to 53 significant bits, ties to *)
(* even. Exact for values from 2^-22 up to 2^44, which covers words        *)
(* shorter than 2^15 units and every frequency.                            *)
Radix == 32768

MantissaBits == 53

DoubleZero == <<0, 0, 0, 0, 0, 0, 0, 0>>

(* static_cast<double>(n) of a size or a distance. *)
DoubleOfSize(n) == [DoubleZero EXCEPT ![6] = n]

(* static_cast<double>(frequency) *)
DoubleOfU32(f) ==
  [DoubleZero EXCEPT ![6] = f.lo % Radix,
                     ![7] = (2 * f.hi + f.lo \div Radix) % Radix,
                     ![8] = (2 * f.hi + f.lo \div Radix) \div Radix]

TopDigit(x) ==
  CHOOSE j \in 0..8 : (j = 0 \/ x[j] # 0) /\ \A i \in (j + 1)..8 : x[i] = 0

BitLen(x) ==
  IF TopDigit(x) = 0 THEN 0
  ELSE 15 * (TopDigit(x) - 1)
         + (CHOOSE k \in 1..15 : x[TopDigit(x)] < 2^k /\ x[TopDigit(x)] >= 2^(k - 1))

Bit(x, i) == (x[(i \div 15) + 1] \div 2^(i % 15)) % 2

RECURSIVE AddDigits(_, _, _, _)
AddDigits(x, y, j, carry) ==
  IF j > 8 THEN <<>>
  ELSE Let1(x[j] + y[j] + carry,
            LAMBDA t : <<t % Radix>> \o AddDigits(x, y, j + 1, t \div Radix))

ExactSum(x, y) == Let1(x, LAMBDA a : Let1(y, LAMBDA b : AddDigits(a, b, 1, 0)))

(* x * k for one digit k. *)
RECURSIVE ScaleDigits(_, _, _, _)
ScaleDigits(x, k, j, carry) ==
  IF j > 8 THEN <<>>
  ELSE Let1(x[j] * k + carry,
            LAMBDA t : <<t % Radix>> \o ScaleDigits(x, k, j + 1, t \div Radix))

ShiftDigits(x, n) == Let1(x, LAMBDA a : [j \in 1..8 |-> IF j > n THEN a[j - n] ELSE 0])

(* n * x for a whole number n. *)
ExactProduct(n, x) ==
  Let1(n, LAMBDA k :
    Let1(x, LAMBDA a :
      ExactSum(ScaleDigits(a, k[6], 1, 0),
               ExactSum(ShiftDigits(ScaleDigits(a, k[7], 1, 0), 1),
                        ShiftDigits(ScaleDigits(a, k[8], 1, 0), 2)))))

(* x / m for a whole number m below 2^16: the remainder, then the digits   *)
(* of the quotient.                                                        *)
RECURSIVE DivDigits(_, _, _, _)
DivDigits(x, m, j, r) ==
  IF j = 0 THEN <<r>>
  ELSE Let1(r * Radix + x[j],
            LAMBDA t : Append(DivDigits(x, m, j - 1, t % m), t \div m))

(* Round to nearest, ties to even; inexact says that x is the exact value  *)
(* cut below its last digit.                                               *)
RoundToDouble(x, inexact) ==
  Let1(BitLen(x) - MantissaBits,
       LAMBDA s :
         IF s <= 0 THEN x
         ELSE Let1([j \in 1..8 |-> IF j <= s \div 15 THEN 0
                                    ELSE IF j = s \div 15 + 1
                                    THEN x[j] - (x[j] % 2^(s % 15))
                                    ELSE x[j]],
                   LAMBDA kept :
                     IF /\ Bit(x, s - 1) = 1
                        /\ \/ inexact
                           \/ Bit(x, s) = 1
                           \/ \E i \in 0..(s - 2) : Bit(x, i) = 1
                     THEN ExactSum(kept, [j \in 1..8 |-> IF j = s \div 15 + 1
                                                          THEN 2^(s % 15) ELSE 0])
                     ELSE kept))

(* x + y, n * x and n / m in double. *)
DoublePlus(x, y) == Let1(ExactSum(x, y), LAMBDA e : RoundToDouble(e, FALSE))

DoubleTimes(n, x) == Let1(ExactProduct(n, x), LAMBDA e : RoundToDouble(e, FALSE))

DoubleQuotient(n, m) ==
  Let1(DoubleOfSize(n), LAMBDA a :
    Let1(m, LAMBDA b :
      Let1(DivDigits(a, b, 8, 0), LAMBDA d :
        Let1(Tail(d), LAMBDA q : RoundToDouble(q, Head(d) # 0)))))

(* The literals 0.02 and 0.05: the doubles nearest to 2/100 and 5/100. *)
LenBonusFactor == DoubleQuotient(2, 100)

FreqBonusFactor == DoubleQuotient(5, 100)

(* Trie::score_word *)
score_word(query, word, frequency) ==
  Let1(DoubleQuotient(1, 1 + levenshtein_distance(query, word)),
       LAMBDA sim :
         Let1(DoubleTimes(DoubleOfSize(Len(word)), LenBonusFactor),
              LAMBDA len_bonus :
                Let1(DoubleTimes(DoubleOfU32(frequency), FreqBonusFactor),
                     LAMBDA freq_bonus :
                       DoublePlus(DoublePlus(sim, len_bonus), freq_bonus))))

(* a > b on doubles. *)
ScoreGreater(a, b) ==
  \E j \in 1..8 : a[j] > b[j] /\ \A i \in (j + 1)..8 : a[i] = b[i]

(* a.word < b.word on std::string: byte-wise lexicographic. *)
StringLess(x, y) ==
  \E k \in 0..Len(x) :
    /\ k <= Len(y)
    /\ SubSeq(x, 1, k) = SubSeq(y, 1, k)
    /\ \/ k = Len(x) /\ k < Len(y)
       \/ k < Len(x) /\ k < Len(y) /\ x[k + 1] < y[k + 1]

(* The comparator handed to std::sort. *)
Comparator(a, b) ==
  IF a.score # b.score THEN ScoreGreater(a.score, b.score)
  ELSE StringLess(a.word, b.word)

(* std::sort(scored.begin(), scored.end(), Comparator): the words of       *)
(* scored are distinct, the comparator totally orders them, so the sorted  *)
(* vector is unique; here it is built by insertion.                        *)
RECURSIVE SortInsert(_, _)
SortInsert(s, x) ==
  IF s = <<>> THEN <<x>>
  ELSE IF Comparator(x, Head(s)) THEN <<x>> \o s
  ELSE <<Head(s)>> \o SortInsert(Tail(s), x)

RECURSIVE Sort(_)
Sort(s) ==
  IF s = <<>> THEN <<>>
  ELSE Let1(Sort(Tail(s)), LAMBDA rest : SortInsert(rest, Head(s)))

(* Trie::collect_scored: out after the call on node. ScoredLoop is its for *)
(* loop over node->children, from the k-th key on.                         *)
RECURSIVE ScoredVisit(_, _, _, _, _), ScoredLoop(_, _, _, _, _, _)
ScoredVisit(T, node, current, out, query) ==
  IF ~T[node].is_terminal THEN ScoredLoop(T, node, current, out, query, 1)
  ELSE Let1(Append(out, [word |-> current,
                         score |-> score_word(query, current, T[node].frequency)]),
            LAMBDA out1 : ScoredLoop(T, node, current, out1, query, 1))

ScoredLoop(T, node, current, out, query, k) ==
  IF k > Len(T[node].children) THEN out
  ELSE Let1(ScoredVisit(T, Append(node, T[node].children[k]),
                        Append(current, T[node].children[k]), out, query),
            LAMBDA out1 : ScoredLoop(T, node, current, out1, query, k + 1))

collect_scored(T, node, current, out, query) == ScoredVisit(T, node, current, out, query)

Min(x, y) == IF x <= y THEN x ELSE y

(* The first take words of the vector scored. *)
Words1(scored, take) == [i \in 1..take |-> scored[i].word]

(* Trie::search_ranked *)
search_ranked(T, query, limit) ==
  Let1(collect_scored(T, <<>>, <<>>, <<>>, query),
       LAMBDA found :
         Let1(Sort(found),
              LAMBDA scored :
                Words1(scored, IF limit = 0 THEN Len(scored) ELSE Min(limit, Len(scored)))))

----------------------------------------------------------------------------
(* The sequential caller: one call at a time, each an atomic step. A query *)
(* leaves its value in result; the caller takes it before its next call.   *)

None == [op |-> "none", arg |-> <<>>, limit |-> 0, value |-> <<>>]

(* What a call returns: a bool (contains), a vector of strings (suggest,   *)
(* search_ranked), or nothing yet.                                         *)
NoValue == [flag |-> FALSE, list |-> <<>>]
BoolValue(b) == [flag |-> b, list |-> <<>>]
ListValue(v) == [flag |-> FALSE, list |-> v]

NoCall == [op |-> "none", arg |-> <<>>, limit |-> 0]

Free == "free"
Threads == {"t1", "t2"}

Count(h, w) == IF w \in DOMAIN h THEN h[w] ELSE U32Zero

Counted(h, w) == [x \in DOMAIN h \cup {w} |-> IF x = w THEN CountInc(Count(h, w)) ELSE h[x]]

MTIdle ==
  /\ thread_safe = FALSE
  /\ mtx = Free
  /\ pc = [t \in Threads |-> "idle"]
  /\ call = [t \in Threads |-> NoCall]
  /\ pos = [t \in Threads |-> 0]
  /\ locked = [t \in Threads |-> FALSE]
  /\ ret = [t \in Threads |-> NoValue]
  /\ snap = EmptyTrie

LevIdle == lev_a = <<>> /\ lev_b = <<>> /\ lev_d = <<>>

(* After construction: Trie t; *)
Init ==
  /\ root = EmptyTrie
  /\ result = None
  /\ inserts = <<>>
  /\ ninserts = 0
  /\ MTIdle
  /\ LevIdle

(* A trie that has lived long: one word, "a", inserted 2^32 - 1 times (the *)
(* state 2^32 - 1 Insert steps lead to from Init; ninserts counts the      *)
(* calls from here on).                                                    *)
AgedWord == <<97>>

InitAged ==
  /\ root = [p \in {<<>>, AgedWord} |->
               IF p = <<>> THEN [TrieNode EXCEPT !.children = AgedWord]
               ELSE [TrieNode EXCEPT !.is_terminal = TRUE, !.frequency = U32Max]]
  /\ result = None
  /\ inserts = [w \in {AgedWord} |-> U32Max]
  /\ ninserts = 0
  /\ MTIdle
  /\ LevIdle

(* t.insert(w), at most cap times in a run *)
Insert(w, cap) ==
  /\ result = None
  /\ ninserts < cap
  /\ root' \in insert(root, w)
  /\ inserts' = Counted(inserts, w)
  /\ ninserts' = ninserts + 1
  /\ UNCHANGED <<result, mtVars, levVars>>

(* t.contains(w) *)
Contains(w) ==
  /\ result = None
  /\ result' = [op |-> "contains", arg |-> w, limit |-> 0, value |-> contains(root, w)]
  /\ UNCHANGED <<root, inserts, ninserts, mtVars, levVars>>

(* t.suggest(p, limit) *)
Suggest(p, limit) ==
  /\ result = None
  /\ result' = [op |-> "suggest", arg |-> p, limit |-> limit,
                value |-> suggest(root, p, limit)]
  /\ UNCHANGED <<root, inserts, ninserts, mtVars, levVars>>

(* t.search_ranked(q, limit) *)
SearchRanked(q, limit) ==
  /\ result = None
  /\ result' = [op |-> "search_ranked", arg |-> q, limit |-> limit,
                value |-> search_ranked(root, q, limit)]
  /\ UNCHANGED <<root, inserts, ninserts, mtVars, levVars>>

(* The caller takes the returned value. *)
TakeResult ==
  /\ result # None
  /\ result' = None
  /\ UNCHANGED <<root, inserts, ninserts, mtVars, levVars>>

(* Inserts, membership tests and prefix suggestions. *)
Next ==
  \/ \E w \in Words : Insert(w, MaxInserts)
  \/ \E w \in Words : Contains(w)
  \/ \E p \in Words, limit \in Limits : Suggest(p, limit)
  \/ TakeResult

Spec == Init /\ [][Next]_vars

SpecAged == InitAged /\ [][Next]_vars

(* Inserts of the same words and ranked searches for longer queries. *)
NextSearch ==
  \/ \E w \in Words : Insert(w, MaxInserts)
  \/ \E q \in RankWords, limit \in Limits : SearchRanked(q, limit)
  \/ TakeResult

SpecSearch == Init /\ [][NextSearch]_vars

(* Ranked search over longer words. *)
NextRank ==
  \/ \E w \in RankWords : Insert(w, RankMaxInserts)
  \/ \E q \in RankWords, limit \in Limits : SearchRanked(q, limit)
  \/ TakeResult

SpecRank == Init /\ [][NextRank]_vars

----------------------------------------------------------------------------
(* Threads calling one Trie. A call is: the LockGuard constructor, the     *)
(* body in steps (one per loop round or statement that reads or writes the *)
(* tree), the LockGuard destructor. With thread_safe_ false the caller     *)
(* serializes the calls itself, as the class requires.                     *)

MTCalls ==
  {[op |-> o, arg |-> w, limit |-> 0] : o \in {"insert", "contains"}, w \in MTWords}
    \cup {[op |-> o, arg |-> w, limit |-> l] :
            o \in {"suggest", "search_ranked"}, w \in MTWords, l \in MTLimits}

(* Between the LockGuard constructor's return and the destructor's. *)
InBody(t) == pc[t] \in {"walk", "count", "scan", "exit"}

(* Trie t(flag); *)
InitMT ==
  /\ root = EmptyTrie
  /\ result = None
  /\ inserts = <<>>
  /\ ninserts = 0
  /\ thread_safe \in BOOLEAN
  /\ mtx = Free
  /\ pc = [t \in Threads |-> "idle"]
  /\ call = [t \in Threads |-> NoCall]
  /\ pos = [t \in Threads |-> 0]
  /\ locked = [t \in Threads |-> FALSE]
  /\ ret = [t \in Threads |-> NoValue]
  /\ snap = EmptyTrie
  /\ LevIdle

(* Thread t calls an operation. *)
Invoke(t, c) ==
  /\ pc[t] = "idle"
  /\ thread_safe \/ \A u \in Threads : pc[u] = "idle"
  /\ c.op = "insert" => ninserts < MTMaxInserts
  /\ pc' = [pc EXCEPT ![t] = "guard"]
  /\ call' = [call EXCEPT ![t] = c]
  /\ ninserts' = IF c.op = "insert" THEN ninserts + 1 ELSE ninserts
  /\ UNCHANGED <<root, result, inserts, thread_safe, mtx, pos, locked, ret, snap, levVars>>

(* The first statement of the body once the guard is built. *)
Enter(t) ==
  /\ pc' = [pc EXCEPT ![t] = IF call[t].op = "search_ranked" THEN "scan" ELSE "walk"]
  /\ pos' = [pos EXCEPT ![t] = 0]
  /\ snap' = root

(* A LockGuard constructor that never locks. *)
LockGuardCtorNoLock(t) ==
  /\ pc[t] = "guard"
  /\ locked' = [locked EXCEPT ![t] = FALSE]
  /\ Enter(t)
  /\ UNCHANGED <<root, result, inserts, ninserts, thread_safe, mtx, call, ret, levVars>>

(* LockGuard::LockGuard: mtx_.lock() blocks while another thread holds it. *)
LockGuardCtor(t) ==
  /\ pc[t] = "guard"
  /\ IF thread_safe
     THEN /\ mtx = Free
          /\ mtx' = t
          /\ locked' = [locked EXCEPT ![t] = TRUE]
     ELSE /\ mtx' = mtx
          /\ locked' = [locked EXCEPT ![t] = FALSE]
  /\ Enter(t)
  /\ UNCHANGED <<root, result, inserts, ninserts, thread_safe, call, ret, levVars>>

(* insert: one round of the loop. *)
InsertStep(t) ==
  /\ pc[t] = "walk"
  /\ call[t].op = "insert"
  /\ pos[t] < Len(call[t].arg)
  /\ LET node == SubSeq(call[t].arg, 1, pos[t])
         c == call[t].arg[pos[t] + 1]
     IN IF HasChild(root, node, c) THEN root' = root
        ELSE \E ord \in OrdersWith(root[node].children, c) : root' = AddChild(root, node, c, ord)
  /\ pos' = [pos EXCEPT ![t] = @ + 1]
  /\ UNCHANGED <<result, inserts, ninserts, thread_safe, mtx, pc, call, locked, ret, snap, levVars>>

(* insert: node->is_terminal = true; *)
InsertMark(t) ==
  /\ pc[t] = "walk"
  /\ call[t].op = "insert"
  /\ pos[t] = Len(call[t].arg)
  /\ root' = MarkTerminal(root, call[t].arg)
  /\ pc' = [pc EXCEPT ![t] = "count"]
  /\ UNCHANGED <<result, inserts, ninserts, thread_safe, mtx, call, pos, locked, ret, snap, levVars>>

(* insert: node->frequency += 1; *)
InsertCount(t) ==
  /\ pc[t] = "count"
  /\ root' = BumpFrequency(root, call[t].arg)
  /\ inserts' = Counted(inserts, call[t].arg)
  /\ pc' = [pc EXCEPT ![t] = "exit"]
  /\ UNCHANGED <<result, ninserts, thread_safe, mtx, call, pos, locked, ret, snap, levVars>>

(* contains: one round of the loop (with its early return), or the final   *)
(* return node->is_terminal.                                               *)
ContainsStep(t) ==
  /\ pc[t] = "walk"
  /\ call[t].op = "contains"
  /\ IF pos[t] = Len(call[t].arg)
     THEN /\ ret' = [ret EXCEPT ![t] = BoolValue(root[call[t].arg].is_terminal)]
          /\ pc' = [pc EXCEPT ![t] = "exit"]
          /\ pos' = pos
     ELSE IF ~HasChild(root, SubSeq(call[t].arg, 1, pos[t]), call[t].arg[pos[t] + 1])
     THEN /\ ret' = [ret EXCEPT ![t] = BoolValue(FALSE)]
          /\ pc' = [pc EXCEPT ![t] = "exit"]
          /\ pos' = pos
     ELSE /\ pos' = [pos EXCEPT ![t] = @ + 1]
          /\ UNCHANGED <<pc, ret>>
  /\ UNCHANGED <<root, result, inserts, ninserts, thread_safe, mtx, call, locked, snap, levVars>>

(* suggest: one round of the loop (with its early return), or the          *)
(* traversal that fills out.                                               *)
SuggestStep(t) ==
  /\ pc[t] = "walk"
  /\ call[t].op = "suggest"
  /\ IF pos[t] = Len(call[t].arg)
     THEN /\ ret' = [ret EXCEPT ![t] = ListValue(
                       collect_suggestions(root, call[t].arg, call[t].arg, <<>>, call[t].limit))]
          /\ pc' = [pc EXCEPT ![t] = "exit"]
          /\ pos' = pos
     ELSE IF ~HasChild(root, SubSeq(call[t].arg, 1, pos[t]), call[t].arg[pos[t] + 1])
     THEN /\ ret' = [ret EXCEPT ![t] = ListValue(<<>>)]
          /\ pc' = [pc EXCEPT ![t] = "exit"]
          /\ pos' = pos
     ELSE /\ pos' = [pos EXCEPT ![t] = @ + 1]
          /\ UNCHANGED <<pc, ret>>
  /\ UNCHANGED <<root, result, inserts, ninserts, thread_safe, mtx, call, locked, snap, levVars>>

(* search_ranked: the scan, the sort and the copy. *)
SearchRankedStep(t) ==
  /\ pc[t] = "scan"
  /\ ret' = [ret EXCEPT ![t] = ListValue(search_ranked(root, call[t].arg, call[t].limit))]
  /\ pc' = [pc EXCEPT ![t] = "exit"]
  /\ UNCHANGED <<root, result, inserts, ninserts, thread_safe, mtx, call, pos, locked, snap, levVars>>

(* The call returns its value to the caller. *)
Leave(t) ==
  /\ pc' = [pc EXCEPT ![t] = "idle"]
  /\ call' = [call EXCEPT ![t] = NoCall]
  /\ pos' = [pos EXCEPT ![t] = 0]
  /\ ret' = [ret EXCEPT ![t] = NoValue]
  /\ locked' = [locked EXCEPT ![t] = FALSE]

(* A LockGuard destructor that never unlocks. *)
LockGuardDtorNoUnlock(t) ==
  /\ pc[t] = "exit"
  /\ Leave(t)
  /\ UNCHANGED <<root, result, inserts, ninserts, thread_safe, mtx, snap, levVars>>

(* LockGuard::~LockGuard, on every return of the body. *)
LockGuardDtor(t) ==
  /\ pc[t] = "exit"
  /\ mtx' = IF locked[t] THEN Free ELSE mtx
  /\ Leave(t)
  /\ UNCHANGED <<root, result, inserts, ninserts, thread_safe, snap, levVars>>

(* What thread t does by itself once it is past the guard. *)
Run(t) ==
  \/ InsertStep(t)
  \/ InsertMark(t)
  \/ InsertCount(t)
  \/ ContainsStep(t)
  \/ SuggestStep(t)
  \/ SearchRankedStep(t)
  \/ LockGuardDtor(t)

NextMT ==
  \E t \in Threads :
     \/ \E c \in MTCalls : Invoke(t, c)
     \/ LockGuardCtor(t)
     \/ Run(t)

SpecMT == InitMT /\ [][NextMT]_vars

(* Fair scheduling: a thread that can take a step of its body takes it,    *)
(* and a thread waiting for the mutex gets it if it is free again and      *)
(* again.                                                                  *)
FairSpecMT ==
  /\ InitMT
  /\ [][NextMT]_vars
  /\ \A t \in Threads : WF_vars(Run(t)) /\ SF_vars(LockGuardCtor(t))

----------------------------------------------------------------------------
(* levenshtein_distance on its own: two strings, then the distance each    *)
(* way.                                                                    *)

InitLev ==
  /\ root = EmptyTrie
  /\ result = None
  /\ inserts = <<>>
  /\ ninserts = 0
  /\ MTIdle
  /\ lev_a \in LevWords
  /\ lev_b \in LevWords
  /\ lev_d = <<>>

Levenshtein ==
  /\ lev_d = <<>>
  /\ lev_d' = <<levenshtein_distance(lev_a, lev_b), levenshtein_distance(lev_b, lev_a)>>
  /\ UNCHANGED <<seqVars, mtVars, lev_a, lev_b>>

NextLev == Levenshtein

SpecLev == InitLev /\ [][NextLev]_vars

----------------------------------------------------------------------------
(* What the claims speak of. *)

(* The words some earlier insert call was given. *)
Inserted == DOMAIN inserts

Matches(p) == {w \in Inserted : IsPrefix(p, w)}

Distinct(s) == \A i, j \in 1..Len(s) : s[i] = s[j] => i = j

(* A frequency as a number (exact below 65536 * 65536, which TLC cannot    *)
(* hold; used where the frequencies are small).                            *)
Small(f) == f.hi * U32Base + f.lo

(* The edit distance from the query q to every stored word.                *)
Distances(q) == {<<w, levenshtein_distance(q, w)>> : w \in Inserted}

DistanceOf(D, w) == (CHOOSE p \in D : p[1] = w)[2]

(* score(x) > score(y) and score(x) = score(y), D the distances to the     *)
(* query, with score(w) = 1/(1 + d(w)) + 0.02 * length(w)                  *)
(* + 0.05 * frequency(w), both sides multiplied by                         *)
(* 100 * (1 + d(x)) * (1 + d(y)).                                          *)
ClaimedScore(D, w, other) ==
  (100 + (2 * Len(w) + 5 * Small(root[w].frequency)) * (1 + DistanceOf(D, w)))
    * (1 + DistanceOf(D, other))

RankedBefore(D, x, y) ==
  \/ ClaimedScore(D, x, y) > ClaimedScore(D, y, x)
  \/ ClaimedScore(D, x, y) = ClaimedScore(D, y, x) /\ StringLess(x, y)

(* C1: after any inserts, contains(W) is true exactly when W was the       *)
(* argument of an earlier insert: for the value a contains call returned   *)
(* and for every word at every later state (so a word once contained stays *)
(* contained); false for a mere prefix or extension of an inserted word    *)
(* and for the empty word unless it was inserted.                          *)
C1_ContainsIffInserted ==
  /\ result.op = "contains" => (result.value <=> result.arg \in Inserted)
  /\ \A w \in Words : contains(root, w) <=> w \in Inserted

(* A contains call answered false for a proper prefix of an inserted word. *)
C1_Witness ==
  /\ result.op = "contains"
  /\ result.value = FALSE
  /\ \E w \in Inserted : IsPrefix(result.arg, w) /\ result.arg # w
  /\ \E w \in Inserted : IsPrefix(w, result.arg)

(* C2: suggest(P, 0) returns exactly the inserted words that start with P, *)
(* each once, and nothing else; the empty sequence when there is none.     *)
C2_SuggestAllMatches ==
  (result.op = "suggest" /\ result.limit = 0) =>
     /\ Range(result.value) = Matches(result.arg)
     /\ Distinct(result.value)

(* suggest(P, 0) returned P itself and two more words. *)
C2_Witness ==
  /\ result.op = "suggest"
  /\ result.limit = 0
  /\ result.arg \in Range(result.value)
  /\ Len(result.value) >= 3

(* C3: search_ranked(q, limit) returns the first min(limit, N) entries     *)
(* (all N when limit = 0) of the N stored words sorted by descending       *)
(* score, equal scores in ascending byte-wise order, no word twice.        *)
C3_RankedTopOfSorted ==
  result.op = "search_ranked" =>
    LET v == result.value
        D == Distances(result.arg)
        N == Cardinality(Inserted)
    IN /\ Len(v) = IF result.limit = 0 THEN N ELSE Min(result.limit, N)
       /\ Range(v) \subseteq Inserted
       /\ Distinct(v)
       /\ \A i, j \in 1..Len(v) : i < j => RankedBefore(D, v[i], v[j])
       /\ \A w \in Inserted \ Range(v) : \A i \in 1..Len(v) : RankedBefore(D, v[i], w)

(* C4: for limit > 0, suggest(P, limit) returns exactly min(limit, M)      *)
(* results, M the number of inserted words that start with P, pairwise     *)
(* distinct and each an inserted word that starts with P.                  *)
C4_SuggestLimit ==
  (result.op = "suggest" /\ result.limit > 0) =>
     /\ Len(result.value) = Min(result.limit, Cardinality(Matches(result.arg)))
     /\ Range(result.value) \subseteq Matches(result.arg)
     /\ Distinct(result.value)

(* suggest(P, 2) returned 2 of 3 matches. *)
C4_Witness ==
  /\ result.op = "suggest"
  /\ result.limit = 2
  /\ Cardinality(Matches(result.arg)) = 3
  /\ Len(result.value) = 2

(* The trees that hold the words of T, with the same flags and counters,   *)
(* whatever the order each container iterates its keys in.                 *)
Layouts(T) ==
  {T2 \in [DOMAIN T -> [children : UNION {Orders(Range(T[p].children)) : p \in DOMAIN T},
                        is_terminal : BOOLEAN,
                        frequency : {T[p].frequency : p \in DOMAIN T}]] :
     \A p \in DOMAIN T :
        /\ Range(T2[p].children) = Range(T[p].children)
        /\ Len(T2[p].children) = Len(T[p].children)
        /\ T2[p].is_terminal = T[p].is_terminal
        /\ T2[p].frequency = T[p].frequency}

(* C5: the sequence suggest(prefix, limit) returns depends on the stored   *)
(* words, the prefix and the limit only: a trie holding the same words in  *)
(* another internal edge layout returns the same sequence.                 *)
C5_SuggestLayoutIndependent ==
  result.op = "suggest" =>
    \A T2 \in Layouts(root) : suggest(T2, result.arg, result.limit) = result.value

C10_State ==
  \A p \in DOMAIN root :
     /\ root[p].frequency = Count(inserts, p)
     /\ root[p].is_terminal <=> root[p].frequency # U32Zero

(* C10, in a step: no frequency decreases; re-inserting a stored word adds *)
(* exactly 1 to its frequency, creates no node and changes no other node's *)
(* frequency or terminal flag.                                             *)
C10_Step ==
  /\ \A p \in DOMAIN root :
        p \in DOMAIN root' /\ NumLeq(root[p].frequency, root'[p].frequency)
  /\ \A w \in Inserted :
        inserts'[w] # inserts[w] =>
           /\ DOMAIN root' = DOMAIN root
           /\ root'[w].frequency = CountInc(root[w].frequency)
           /\ \A p \in DOMAIN root \ {w} :
                 /\ root'[p].frequency = root[p].frequency
                 /\ root'[p].is_terminal = root[p].is_terminal

(* C10: frequency (a std::uint32_t) equals the number of insert calls made *)
(* with the node's word, never decreases, is >= 1 exactly when is_terminal *)
(* is true, and a re-insert adds exactly 1 and touches nothing else.       *)
C10_FrequencyCountsInserts == [][C10_State' /\ C10_Step]_vars

(* Whether the call of thread t, about to return, leaves what the same     *)
(* call leaves when it runs alone on the tree it found.                    *)
Sequential(t) ==
  LET c == call[t]
  IN CASE c.op = "insert" -> root \in insert(snap, c.arg)
       [] c.op = "contains" -> root = snap /\ ret[t] = BoolValue(contains(snap, c.arg))
       [] c.op = "suggest" -> root = snap /\ ret[t] = ListValue(suggest(snap, c.arg, c.limit))
       [] c.op = "search_ranked" ->
            root = snap /\ ret[t] = ListValue(search_ranked(snap, c.arg, c.limit))

(* C6: with thread_safe = true, at most one call (readers included) is     *)
(* between lock acquisition and return, and it holds the mutex; a reader   *)
(* never sees a partially applied insert (the tree stays as it found it),  *)
(* and every call leaves what it leaves when run alone, in lock order.     *)
C6_BodiesNeverOverlap ==
  thread_safe =>
    /\ \A t, u \in Threads : (InBody(t) /\ InBody(u)) => t = u
    /\ \A t \in Threads : InBody(t) => mtx = t
    /\ \A t \in Threads : (InBody(t) /\ call[t].op # "insert") => root = snap
    /\ \A t \in Threads : pc[t] = "exit" => Sequential(t)

(* An insert is half applied (terminal flag set, frequency not yet         *)
(* counted) while a reader waits for the mutex.                            *)
C6_Witness ==
  /\ thread_safe
  /\ \E t, u \in Threads :
        /\ pc[t] = "count"
        /\ root[call[t].arg].frequency = U32Zero
        /\ pc[u] = "guard"
        /\ call[u].op = "contains"
        /\ call[u].arg = call[t].arg

Edits(s) ==
  {SubSeq(s, 1, k - 1) \o SubSeq(s, k + 1, Len(s)) : k \in 1..Len(s)}
    \cup {[s EXCEPT ![k] = c] : k \in 1..Len(s), c \in Alphabet}
    \cup {SubSeq(s, 1, k) \o <<c>> \o SubSeq(s, k + 1, Len(s)) :
            k \in IF Len(s) < LevMaxLen THEN 0..Len(s) ELSE {}, c \in Alphabet}

(* The strings at most k edits away from a. *)
RECURSIVE Within(_, _)
Within(a, k) ==
  IF k = 0 THEN {a}
  ELSE LET S == Within(a, k - 1) IN S \cup UNION {Edits(x) : x \in S}

(* The least number of edits that turn a into b. *)
EditDistance(a, b) ==
  CHOOSE k \in 0..(Len(a) + Len(b)) :
    b \in Within(a, k) /\ \A j \in 0..(k - 1) : b \notin Within(a, j)

(* C8: levenshtein_distance(a, b) is the least number of single-unit       *)
(* insertions, deletions and substitutions turning a into b; so it is 0    *)
(* on (x, x), symmetric, length(x) on ("", x), and a natural number.       *)
C8_LevenshteinIsEditDistance ==
  lev_d # <<>> =>
    /\ lev_d[1] = EditDistance(lev_a, lev_b)
    /\ lev_d[1] = lev_d[2]
    /\ lev_a = lev_b => lev_d[1] = 0
    /\ lev_a = <<>> => lev_d[1] = Len(lev_b)
    /\ lev_d[1] \in Nat

(* Two different strings of the longest length, at distance 2. *)
C8_Witness ==
  /\ lev_d # <<>>
  /\ Len(lev_a) = LevMaxLen
  /\ Len(lev_b) = LevMaxLen
  /\ lev_d[1] = 2

====
